---- MODULE Spec2Model ----
(***************************************************************************)
(* Model of the feedback-control core of src/thermal.py: the Control       *)
(* strategy family, the rate-limited ControllerReporter and the            *)
(* Controller tick.                                                        *)
(*                                                                         *)
(* Numbers are scaled integers.  An optional value (Python None or a       *)
(* number) is a sequence of length 0 or 1: None is <<>>, the number v is   *)
(* <<v>>.  The clock counts hundredths of a second, so the record's        *)
(* '{:.2f}' rendering of an elapsed time is exact.                         *)
(*                                                                         *)
(* The specifications share the variables:                                 *)
(*   SpecControl    one Control object driven through its public methods,  *)
(*   SpecReporter   one ControllerReporter driven against a clock,         *)
(*   SpecController one Controller composed of Controls, Outputs and a     *)
(*                  Reporter, driven by ticks.                             *)
(*   SpecThermistor one Thermistor read through its two ADC pins,          *)
(*   SpecPeriodic   one ControllerReporter updated at a fixed period,      *)
(*   SpecReporterIO SpecReporter with a log file that may fail to open.     *)
(* A specification leaves the variables it does not use at Idle.           *)
(***************************************************************************)
EXTENDS Integers, Sequences, FiniteSets, TLC

VARIABLES
    control,      \* SpecControl: the Control object under test
    last,         \* the latest call: its name, arguments, result, effects
    reporter,     \* SpecReporter: the ControllerReporter under test
    handles,      \* every file object the reporter has opened, in order
    now,          \* time.time(), in hundredths of a second
    controller,   \* SpecController: the Controller under test
    thermistor    \* SpecThermistor: the Thermistor under test

vars == <<control, last, reporter, handles, now, controller, thermistor>>

\* ---------------------------------------------------------------- bounds

MaxTemp == 2          \* measurements and setpoints range over 0..MaxTemp
OutLo == 1            \* min_output / max_output range over -OutLo..OutHi
OutHi == 2
MaxEps == 1           \* setpoint_reached_epsilon ranges over 0..MaxEps
MaxGain == 2          \* ProportionalControl gain ranges over 1..MaxGain

\* --------------------------------------------------------------- helpers

None == <<>>
Some(v) == <<v>>
IsNone(x) == x = None
Val(x) == x[1]

Temps == 0..MaxTemp
OptTemps == {None} \cup {Some(t) : t \in Temps}
Outs == (0 - OutLo)..OutHi

Abs(x) == IF x < 0 THEN 0 - x ELSE x
Max2(a, b) == IF a >= b THEN a ELSE b
Min2(a, b) == IF a <= b THEN a ELSE b

Idle == [op |-> "idle"]

\* ------------------------------------------------------- Control family

Kinds == {"InfiniteGainControl", "ProportionalControl", "PIDControl"}

\* Control.__init__: the latch starts False whatever the initial setpoint.
Control_init(kind, initial_setpoint, min_output, max_output, epsilon, oipv) ==
    [kind |-> kind,
     setpoint |-> initial_setpoint,
     min_output |-> min_output,
     max_output |-> max_output,
     after_setpoint_change |-> "None",
     setpoint_reached |-> "False",
     setpoint_reached_epsilon |-> epsilon,
     output_increases_pv |-> oipv,
     enabled |-> TRUE]

InfiniteGainControl_init(initial_setpoint, min_output, max_output, epsilon, oipv) ==
    Control_init("InfiniteGainControl", initial_setpoint, min_output,
                 max_output, epsilon, oipv)

\* ProportionalControl.__init__: the gain, then Control.__init__.
ProportionalControl_init(gain, initial_setpoint, min_output, max_output, epsilon, oipv) ==
    [gain |-> gain] @@
    Control_init("ProportionalControl", initial_setpoint, min_output,
                 max_output, epsilon, oipv)

\* PIDControl.__init__: Control.__init__, then the delegate is built with
\* the control's setpoint and (min_output, max_output) as output limits.
PIDControl_init(initial_setpoint, min_output, max_output, epsilon, oipv) ==
    [pid |-> [setpoint |-> initial_setpoint,
              output_limits |-> <<min_output, max_output>>]] @@
    Control_init("PIDControl", initial_setpoint, min_output,
                 max_output, epsilon, oipv)

reset_setpoint_reached(c) == [c EXCEPT !.setpoint_reached = "False"]

\* Mutant: set_setpoint without the early return on an equal setpoint.
Control_set_setpoint_NoEqualCheck(c, setpoint) ==
    [c |-> reset_setpoint_reached([c EXCEPT !.setpoint = setpoint]),
     calls |-> IF c.after_setpoint_change = "callable"
               THEN <<setpoint>> ELSE <<>>]

\* Mutant: set_setpoint keeps the latch on a change of setpoint.
Control_set_setpoint_KeepLatch(c, setpoint) ==
    IF setpoint = c.setpoint
    THEN [c |-> c, calls |-> <<>>]
    ELSE [c |-> [c EXCEPT !.setpoint = setpoint],
          calls |-> IF c.after_setpoint_change = "callable"
                    THEN <<setpoint>> ELSE <<>>]

\* Control.set_setpoint.  Returns the control and the arguments of the
\* after_setpoint_change calls it made.
Control_set_setpoint(c, setpoint) ==
    IF setpoint = c.setpoint
    THEN [c |-> c, calls |-> <<>>]
    ELSE [c |-> reset_setpoint_reached([c EXCEPT !.setpoint = setpoint]),
          calls |-> IF c.after_setpoint_change = "callable"
                    THEN <<setpoint>> ELSE <<>>]

\* Mutant: PIDControl.set_setpoint does not tell the delegate.
PIDControl_set_setpoint_NoPush(c, setpoint) == Control_set_setpoint(c, setpoint)

\* PIDControl.set_setpoint: the base method, then a present setpoint is
\* pushed into the delegate.
PIDControl_set_setpoint(c, setpoint) ==
    LET r == Control_set_setpoint(c, setpoint)
    IN  IF ~IsNone(r.c.setpoint)
        THEN [r EXCEPT !.c.pid.setpoint = r.c.setpoint]
        ELSE r

set_setpoint(c, setpoint) ==
    IF c.kind = "PIDControl"
    THEN PIDControl_set_setpoint(c, setpoint)
    ELSE Control_set_setpoint(c, setpoint)

enable(c) == [c EXCEPT !.enabled = TRUE]
disable(c) == [c EXCEPT !.enabled = FALSE]

compute_error(c, measurement) ==
    IF IsNone(c.setpoint) \/ IsNone(measurement)
    THEN None
    ELSE Some(Val(c.setpoint) - Val(measurement))

\* Mutant: the reached test with <= in place of <.
compute_setpoint_reached_NonStrict(c, measurement) ==
    IF IsNone(c.setpoint) \/ IsNone(measurement)
    THEN None
    ELSE Some(Abs(Val(c.setpoint) - Val(measurement))
              <= c.setpoint_reached_epsilon)

\* Mutant: a measurement equal to the setpoint counts as reached.
compute_setpoint_reached_AtSetpoint(c, measurement) ==
    LET error == compute_error(c, measurement)
    IN  IF IsNone(error)
        THEN None
        ELSE Some(Val(error) = 0
                  \/ Abs(Val(error)) < c.setpoint_reached_epsilon)

\* None, or the strict comparison |error| < epsilon.
compute_setpoint_reached(c, measurement) ==
    LET error == compute_error(c, measurement)
    IN  IF IsNone(error)
        THEN None
        ELSE Some(Abs(Val(error)) < c.setpoint_reached_epsilon)

\* Mutant: the clamp without its upper limit.
clamp_output_NoUpper(c, output) == Max2(c.min_output, output)

clamp_output(c, output) == Max2(c.min_output, Min2(c.max_output, output))

\* Mutant: update stores the reached test instead of latching it.
Control_update_NoLatch(c, measurement) ==
    IF IsNone(c.setpoint)
    THEN [c EXCEPT !.setpoint_reached = "None"]
    ELSE LET reached == compute_setpoint_reached(c, measurement)
         IN  IF ~IsNone(reached) /\ Val(reached)
             THEN [c EXCEPT !.setpoint_reached = "True"]
             ELSE [c EXCEPT !.setpoint_reached = "False"]

\* Control.update: the latch becomes None without a setpoint, True when the
\* reached test is true, and is otherwise left alone.
Control_update(c, measurement) ==
    IF IsNone(c.setpoint)
    THEN [c EXCEPT !.setpoint_reached = "None"]
    ELSE LET reached == compute_setpoint_reached(c, measurement)
         IN  IF ~IsNone(reached) /\ Val(reached)
             THEN [c EXCEPT !.setpoint_reached = "True"]
             ELSE c

\* Mutant: an absent measurement is treated as "no error" by an active
\* bang-bang control.
InfiniteGainControl_compute_control_effort_NoFault(c, measurement) ==
    IF IsNone(c.setpoint) \/ ~c.enabled THEN Some(0)
    ELSE IF IsNone(measurement) THEN Some(c.min_output)
    ELSE LET error == Val(compute_error(c, measurement))
         IN  IF c.output_increases_pv
             THEN (IF error > 0 THEN Some(c.max_output) ELSE Some(c.min_output))
             ELSE (IF error < 0 THEN Some(c.max_output) ELSE Some(c.min_output))

\* Mutant: a heating control at its setpoint drives the output fully.
InfiniteGainControl_compute_control_effort_OnAtSetpoint(c, measurement) ==
    IF IsNone(c.setpoint) \/ ~c.enabled THEN Some(0)
    ELSE IF IsNone(measurement) THEN None
    ELSE LET error == Val(compute_error(c, measurement))
         IN  IF c.output_increases_pv
             THEN (IF error >= 0 THEN Some(c.max_output) ELSE Some(c.min_output))
             ELSE (IF error < 0 THEN Some(c.max_output) ELSE Some(c.min_output))

InfiniteGainControl_compute_control_effort(c, measurement) ==
    IF IsNone(c.setpoint) \/ ~c.enabled THEN Some(0)
    ELSE IF IsNone(measurement) THEN None
    ELSE LET error == Val(compute_error(c, measurement))
         IN  IF c.output_increases_pv
             THEN (IF error > 0 THEN Some(c.max_output) ELSE Some(c.min_output))
             ELSE (IF error < 0 THEN Some(c.max_output) ELSE Some(c.min_output))

\* Mutant: the gain is never negated.
ProportionalControl_compute_control_effort_IgnoresDirection(c, measurement) ==
    IF IsNone(c.setpoint) \/ ~c.enabled THEN Some(0)
    ELSE IF IsNone(measurement) THEN None
    ELSE Some(clamp_output(c, c.gain * Val(compute_error(c, measurement))))

\* ProportionalControl.compute_control_effort.
ProportionalControl_compute_control_effort(c, measurement) ==
    IF IsNone(c.setpoint) \/ ~c.enabled THEN Some(0)
    ELSE IF IsNone(measurement) THEN None
    ELSE LET error == Val(compute_error(c, measurement))
             gain == IF c.output_increases_pv THEN c.gain ELSE 0 - c.gain
         IN  Some(clamp_output(c, gain * error))

\* What a call of the delegate may return: the delegate keeps its result
\* within the output limits it was built with.
PID_outputs(c) == c.pid.output_limits[1] .. c.pid.output_limits[2]

\* PIDControl.compute_control_effort; pid_out is what the delegate returns
\* if it is called.
PIDControl_compute_control_effort(c, measurement, pid_out) ==
    IF IsNone(measurement) THEN None
    ELSE IF IsNone(c.setpoint) \/ ~c.enabled THEN Some(0)
    ELSE Some(pid_out)

\* Whether compute_control_effort steps the delegate.
PIDControl_steps_delegate(c, measurement) ==
    /\ c.kind = "PIDControl"
    /\ ~IsNone(measurement)
    /\ ~(IsNone(c.setpoint) \/ ~c.enabled)

compute_control_effort(c, measurement, pid_out) ==
    CASE c.kind = "InfiniteGainControl" ->
            InfiniteGainControl_compute_control_effort(c, measurement)
      [] c.kind = "ProportionalControl" ->
            ProportionalControl_compute_control_effort(c, measurement)
      [] c.kind = "PIDControl" ->
            PIDControl_compute_control_effort(c, measurement, pid_out)

\* The delegate outputs to enumerate for a call (one dummy when the control
\* has no delegate).
DelegateOutputs(c) == IF c.kind = "PIDControl" THEN PID_outputs(c) ELSE {0}

\* ----------------------------------------------------------- SpecControl

NewControls ==
    UNION {
        {InfiniteGainControl_init(s, lo, hi, e, d),
         PIDControl_init(s, lo, hi, e, d)} \cup
        {ProportionalControl_init(g, s, lo, hi, e, d) : g \in 1..MaxGain}
        : <<s, lo, hi, e, d>> \in
            {x \in OptTemps \X Outs \X Outs \X (0..MaxEps) \X BOOLEAN :
                x[2] <= x[3]} }

InitControl ==
    /\ control \in NewControls
    /\ last = [op |-> "__init__", pre |-> control]
    /\ reporter = Idle
    /\ handles = <<>>
    /\ now = 0
    /\ controller = Idle
    /\ thermistor = Idle

OthersUnchangedC == UNCHANGED <<reporter, handles, now, controller, thermistor>>

\* A client installs the after_setpoint_change hook.
CInstallCallback ==
    /\ control.after_setpoint_change = "None"
    /\ control' = [control EXCEPT !.after_setpoint_change = "callable"]
    /\ last' = [op |-> "install_callback", pre |-> control]
    /\ OthersUnchangedC

CSetSetpoint ==
    \E v \in OptTemps :
        LET r == set_setpoint(control, v)
        IN  /\ control' = r.c
            /\ last' = [op |-> "set_setpoint", pre |-> control, arg |-> v,
                        calls |-> r.calls]
            /\ OthersUnchangedC

CUpdate ==
    \E m \in OptTemps :
        /\ control' = Control_update(control, m)
        /\ last' = [op |-> "update", pre |-> control, arg |-> m]
        /\ OthersUnchangedC

CComputeControlEffort ==
    \E m \in OptTemps :
        \E pid_out \in DelegateOutputs(control) :
            /\ control' = control
            /\ last' = [op |-> "compute_control_effort", pre |-> control,
                        arg |-> m,
                        ret |-> compute_control_effort(control, m, pid_out),
                        stepped |-> PIDControl_steps_delegate(control, m)]
            /\ OthersUnchangedC

CResetSetpointReached ==
    /\ control' = reset_setpoint_reached(control)
    /\ last' = [op |-> "reset_setpoint_reached", pre |-> control]
    /\ OthersUnchangedC

CEnable ==
    /\ control' = enable(control)
    /\ last' = [op |-> "enable", pre |-> control]
    /\ OthersUnchangedC

CDisable ==
    /\ control' = disable(control)
    /\ last' = [op |-> "disable", pre |-> control]
    /\ OthersUnchangedC

NextControl ==
    \/ CInstallCallback
    \/ CSetSetpoint
    \/ CUpdate
    \/ CComputeControlEffort
    \/ CResetSetpointReached
    \/ CEnable
    \/ CDisable

SpecControl == InitControl /\ [][NextControl]_vars

\* ---------------------------------------------------- ControllerReporter

\* ControllerReporter.__init__: idle, disabled, no file.
Reporter_init(interval, control_efforts) ==
    [interval |-> interval,
     start_time |-> None,
     next_report_index |-> None,
     enabled |-> FALSE,
     control_efforts |-> control_efforts,
     file |-> None]

Reporter_enable(r) == [r EXCEPT !.enabled = TRUE]
Reporter_disable(r) == [r EXCEPT !.enabled = FALSE]

\* A reporter together with the file objects it has opened: w.r is the
\* reporter, w.hs the file objects; w.r.file is None or an index into w.hs.
World(r, hs) == [r |-> r, hs |-> hs]

\* Mutant: close_report() closes the file but keeps holding it.
close_report_KeepHandle(w) ==
    IF ~IsNone(w.r.file)
    THEN [w EXCEPT !.hs[Val(w.r.file)].closed = TRUE,
                   !.hs[Val(w.r.file)].closes = @ + 1]
    ELSE w

\* ControllerReporter.close_report: closes the file it holds, if any.
close_report(w) ==
    IF ~IsNone(w.r.file)
    THEN [r |-> [w.r EXCEPT !.file = None],
          hs |-> [w.hs EXCEPT ![Val(w.r.file)].closed = TRUE,
                              ![Val(w.r.file)].closes = @ + 1]]
    ELSE w

\* Mutant: reset() forgets the session without closing its file.
Reporter_reset_NoClose(w) ==
    [w EXCEPT !.r.start_time = None,
              !.r.next_report_index = None,
              !.r.enabled = TRUE]

\* Mutant: reset() does not enable the reporter.
Reporter_reset_NoEnable(w) ==
    close_report([w EXCEPT !.r.start_time = None,
                           !.r.next_report_index = None])

\* ControllerReporter.reset: forget the session, close the file, enable.
Reporter_reset(w) ==
    LET w1 == close_report([w EXCEPT !.r.start_time = None,
                                     !.r.next_report_index = None])
    IN  [w1 EXCEPT !.r = Reporter_enable(w1.r)]

\* generate_filename: prefix and suffix are fixed, so the name is the
\* timestamp of start_time.
generate_filename(r) == Val(r.start_time)

\* open_report: a new file object, opened for writing, becomes self.file.
open_report(w) ==
    [r |-> [w.r EXCEPT !.file = Some(Len(w.hs) + 1)],
     hs |-> Append(w.hs, [name |-> generate_filename(w.r),
                          closed |-> FALSE,
                          closes |-> 0,
                          lines |-> <<>>])]

\* print(line, file=self.file) on an open file.
WriteLine(w, line) ==
    [w EXCEPT !.hs[Val(w.r.file)].lines = Append(@, line)]

\* The effort columns report_header() renders from self.control_efforts,
\* a tuple of names or a generator of names: an empty tuple is falsy and
\* gives no column; a generator is truthy, so one that yields nothing
\* (it is spent, or there is no output) gives one column with an empty name.
HeaderColumns(ce) ==
    IF ce.kind = "generator" /\ ce.items = <<>> THEN <<"">> ELSE ce.items

\* Rendering the header iterates control_efforts: a generator is spent.
Spent(ce) == IF ce.kind = "generator" THEN [ce EXCEPT !.items = <<>>] ELSE ce

\* report_header: one header line naming the effort columns.
report_header(w) ==
    [WriteLine(w, [kind |-> "header",
                   control_efforts |-> HeaderColumns(w.r.control_efforts)])
        EXCEPT !.r.control_efforts = Spent(@)]

\* The record report() formats: elapsed time, measurement, setpoint, error,
\* efforts, reached flag.
ReportLine(r, report_time, process_variable, setpoint, setpoint_reached, control_efforts) ==
    [kind |-> "record",
     elapsed |-> report_time - Val(r.start_time),
     process_variable |-> process_variable,
     setpoint |-> setpoint,
     error |-> IF IsNone(setpoint) THEN None
               ELSE Some(Val(setpoint) - process_variable),
     control_efforts |-> control_efforts,
     setpoint_reached |-> setpoint_reached]

\* Mutant: the schedule ignores the index, so every call is due.
next_report_time_NoIndex(r) == Val(r.start_time)

\* next_report_time of update(): the absolute schedule
\* start_time + next_report_index * interval.
next_report_time(r) ==
    Val(r.next_report_index) * r.interval + Val(r.start_time)

\* Mutant: the first-report branch arms the schedule one interval late.
Arm_IndexOne(w, current_time) ==
    report_header(open_report([w EXCEPT !.r.start_time = Some(current_time),
                                        !.r.next_report_index = Some(1)]))

\* Mutant: the first-report branch opens the file without a header.
Arm_NoHeader(w, current_time) ==
    open_report([w EXCEPT !.r.start_time = Some(current_time),
                          !.r.next_report_index = Some(0)])

\* The first-report branch of update(): arm, open, header.
Arm(w, current_time) ==
    report_header(open_report([w EXCEPT !.r.start_time = Some(current_time),
                                        !.r.next_report_index = Some(0)]))

\* The number of records a catching-up reporter would owe at current_time.
Owed(r, current_time) ==
    Cardinality({k \in Val(r.next_report_index)..(current_time + 1) :
                    k * r.interval + Val(r.start_time) <= current_time})

RECURSIVE WriteRecords(_, _, _)
WriteRecords(w, line, n) ==
    IF n = 0 THEN w
    ELSE WriteRecords(
             [WriteLine(w, line) EXCEPT
                  !.r.next_report_index = Some(Val(w.r.next_report_index) + 1)],
             line, n - 1)

\* Mutant: update() catches up, writing every record that is due.
Reporter_update_CatchUp(w, current_time, process_variable, setpoint, setpoint_reached, control_efforts) ==
    IF ~w.r.enabled \/ IsNone(process_variable)
    THEN [w |-> w, stdout |-> <<>>, raised |-> "no"]
    ELSE LET w1 == IF IsNone(w.r.next_report_index)
                   THEN Arm(w, current_time) ELSE w
             line == ReportLine(w1.r, current_time, Val(process_variable),
                                setpoint, setpoint_reached, control_efforts)
         IN  IF IsNone(w1.r.file)
             THEN [w |-> w1, stdout |-> <<>>, raised |-> "no"]
             ELSE [w |-> WriteRecords(w1, line, Owed(w1.r, current_time)),
                   stdout |-> <<>>, raised |-> "no"]

\* Mutant: update() goes on although the reporter is disabled.
Reporter_update_IgnoresEnabled(w, current_time, process_variable, setpoint, setpoint_reached, control_efforts) ==
    IF IsNone(process_variable)
    THEN [w |-> w, stdout |-> <<>>, raised |-> "no"]
    ELSE LET w1 == IF IsNone(w.r.next_report_index)
                   THEN Arm(w, current_time) ELSE w
             line == ReportLine(w1.r, current_time, Val(process_variable),
                                setpoint, setpoint_reached, control_efforts)
         IN  IF current_time >= next_report_time(w1.r)
             THEN IF IsNone(w1.r.file)
                  THEN [w |-> w1, stdout |-> <<line>>,
                        raised |-> "AttributeError"]
                  ELSE [w |-> [WriteLine(w1, line) EXCEPT
                                   !.r.next_report_index =
                                       Some(Val(w1.r.next_report_index) + 1)],
                        stdout |-> <<>>, raised |-> "no"]
             ELSE [w |-> w1, stdout |-> <<>>, raised |-> "no"]

\* ControllerReporter.update with time.time() = current_time.  Returns the
\* reporter and its files, the lines that went to sys.stdout, and the
\* exception raised ("no" for a normal return).  With an index but no file
\* (after close_report() without reset()), print(..., file=None) writes the
\* record to sys.stdout and self.file.flush() raises before the index moves.
Reporter_update(w, current_time, process_variable, setpoint, setpoint_reached, control_efforts) ==
    IF ~w.r.enabled \/ IsNone(process_variable)
    THEN [w |-> w, stdout |-> <<>>, raised |-> "no"]
    ELSE LET w1 == IF IsNone(w.r.next_report_index)
                   THEN Arm(w, current_time) ELSE w
             line == ReportLine(w1.r, current_time, Val(process_variable),
                                setpoint, setpoint_reached, control_efforts)
         IN  IF current_time >= next_report_time(w1.r)
             THEN IF IsNone(w1.r.file)
                  THEN [w |-> w1, stdout |-> <<line>>,
                        raised |-> "AttributeError"]
                  ELSE [w |-> [WriteLine(w1, line) EXCEPT
                                   !.r.next_report_index =
                                       Some(Val(w1.r.next_report_index) + 1)],
                        stdout |-> <<>>, raised |-> "no"]
             ELSE [w |-> w1, stdout |-> <<>>, raised |-> "no"]

\* ---------------------------------------------------------- SpecReporter

MaxTime == 4          \* the clock runs over 0..MaxTime
MaxInterval == 2      \* the reporter's interval ranges over 1..MaxInterval
MaxFiles == 2         \* at most MaxFiles files are opened in a run

DefaultEfforts == [kind |-> "tuple", items |-> <<"Thermal Control Effort">>]

InitReporter ==
    /\ \E i \in 1..MaxInterval : reporter = Reporter_init(i, DefaultEfforts)
    /\ handles = <<>>
    /\ now \in 0..1
    /\ last = [op |-> "__init__", pre |-> World(reporter, handles)]
    /\ control = Idle
    /\ controller = Idle
    /\ thermistor = Idle

OthersUnchangedR == UNCHANGED <<control, controller, thermistor>>

\* The clock advances between calls.
RTick ==
    \E t \in (now + 1)..MaxTime :
        /\ now' = t
        /\ UNCHANGED <<reporter, handles, last>>
        /\ OthersUnchangedR

REnable ==
    /\ reporter' = Reporter_enable(reporter)
    /\ last' = [op |-> "enable", pre |-> World(reporter, handles)]
    /\ UNCHANGED <<handles, now>>
    /\ OthersUnchangedR

RDisable ==
    /\ reporter' = Reporter_disable(reporter)
    /\ last' = [op |-> "disable", pre |-> World(reporter, handles)]
    /\ UNCHANGED <<handles, now>>
    /\ OthersUnchangedR

RReset ==
    LET w == Reporter_reset(World(reporter, handles))
    IN  /\ reporter' = w.r
        /\ handles' = w.hs
        /\ last' = [op |-> "reset", pre |-> World(reporter, handles)]
        /\ UNCHANGED now
        /\ OthersUnchangedR

RCloseReport ==
    LET w == close_report(World(reporter, handles))
    IN  /\ reporter' = w.r
        /\ handles' = w.hs
        /\ last' = [op |-> "close_report", pre |-> World(reporter, handles)]
        /\ UNCHANGED now
        /\ OthersUnchangedR

\* update() with a measurement from the sensor; the other arguments are
\* what a controller with one control at setpoint MaxTemp would pass.
RUpdate ==
    \E pv \in {None, Some(0)} :
        LET u == Reporter_update(World(reporter, handles), now, pv,
                                 Some(MaxTemp), "False", <<Some(0)>>)
        IN  /\ Len(u.w.hs) <= MaxFiles
            /\ reporter' = u.w.r
            /\ handles' = u.w.hs
            /\ last' = [op |-> "update", pre |-> World(reporter, handles),
                        arg |-> pv, time |-> now,
                        stdout |-> u.stdout, raised |-> u.raised]
            /\ UNCHANGED now
            /\ OthersUnchangedR

NextReporter ==
    \/ RTick
    \/ REnable
    \/ RDisable
    \/ RReset
    \/ RCloseReport
    \/ RUpdate

SpecReporter == InitReporter /\ [][NextReporter]_vars

\* ------------------------------------------------------------ Controller

\* 'Output {} Effort'.format(i) for the i-th output, counted from 0.
OutputEffortName(i) ==
    CASE i = 0 -> "Output 0 Effort"
      [] i = 1 -> "Output 1 Effort"
      [] OTHER -> "Output n Effort"

\* The output_effort_names property: a fresh generator over the outputs in
\* Controller, a tuple in the two heater controllers.
output_effort_names(cls, outputs) ==
    CASE cls = "Controller" ->
            [kind |-> "generator",
             items |-> [i \in 1..Len(outputs) |-> OutputEffortName(i - 1)]]
      [] cls = "HeaterController" ->
            [kind |-> "tuple", items |-> <<"Heater PWM Duty">>]
      [] cls = "HeaterFanController" ->
            [kind |-> "tuple", items |-> <<"Heater PWM Duty", "Fan PWM Duty">>]

\* An Output that was never commanded.
NewOutput == [commanded |-> FALSE, state |-> None]

\* Controller.__init__: copies the lists (no check of their lengths) and
\* hands every non-null reporter the effort names.  A reporter is None or
\* Some(World(r, hs)): the reporter with the files it has opened.
Controller_init(cls, controls, outputs, reporters) ==
    [cls |-> cls,
     controls |-> controls,
     outputs |-> outputs,
     reporters |->
         [i \in 1..Len(reporters) |->
             IF IsNone(reporters[i]) THEN None
             ELSE Some([Val(reporters[i]) EXCEPT !.r.control_efforts =
                            output_effort_names(cls, outputs)])]]

\* HeaterController.__init__ with no additional controls or outputs and no
\* print reporter.
HeaterController_init(heater_control, heater, file_reporter) ==
    Controller_init("HeaterController", <<heater_control>>, <<heater>>,
                    <<file_reporter, None>>)

\* HeaterFanController.__init__: the fan's control and output follow the
\* heater's.
HeaterFanController_init(heater_control, heater, fan_control, fan, fan_setpoint_offset, file_reporter) ==
    [fan_setpoint_offset |-> fan_setpoint_offset] @@
    Controller_init("HeaterFanController", <<heater_control, fan_control>>,
                    <<heater, fan>>, <<file_reporter, None>>)

\* Controller.set_setpoint: broadcast to every control.  Returns the
\* controller and, per control, the callback calls made.
Controller_set_setpoint(k, setpoint) ==
    LET rs == [i \in 1..Len(k.controls) |-> set_setpoint(k.controls[i], setpoint)]
    IN  [k |-> [k EXCEPT !.controls = [i \in 1..Len(rs) |-> rs[i].c]],
         calls |-> [i \in 1..Len(rs) |-> rs[i].calls]]

\* HeaterFanController.set_setpoint: the broadcast, then a present setpoint
\* plus the offset goes to the fan control (the second control).
HeaterFanController_set_setpoint(k, setpoint) ==
    LET b == Controller_set_setpoint(k, setpoint)
    IN  IF ~IsNone(setpoint)
        THEN LET f == set_setpoint(b.k.controls[2],
                                   Some(Val(setpoint) + k.fan_setpoint_offset))
             IN  [k |-> [b.k EXCEPT !.controls[2] = f.c],
                  calls |-> [b.calls EXCEPT ![2] = @ \o f.calls]]
        ELSE b

Any_set_setpoint(k, setpoint) ==
    IF k.cls = "HeaterFanController"
    THEN HeaterFanController_set_setpoint(k, setpoint)
    ELSE Controller_set_setpoint(k, setpoint)

reset_reporters(k) ==
    [k EXCEPT !.reporters =
        [i \in 1..Len(@) |->
            IF IsNone(@[i]) THEN None ELSE Some(Reporter_reset(Val(@[i])))]]

enable_reporters(k) ==
    [k EXCEPT !.reporters =
        [i \in 1..Len(@) |->
            IF IsNone(@[i]) THEN None
            ELSE Some([Val(@[i]) EXCEPT !.r = Reporter_enable(@)])]]

disable_reporters(k) ==
    [k EXCEPT !.reporters =
        [i \in 1..Len(@) |->
            IF IsNone(@[i]) THEN None
            ELSE Some([Val(@[i]) EXCEPT !.r = Reporter_disable(@)])]]

reset_controls(k) ==
    [k EXCEPT !.controls =
        [i \in 1..Len(@) |-> reset_setpoint_reached(@[i])]]

\* Mutant: reset() resets the reporters and leaves the controls' latches.
Controller_reset_ReportersOnly(k) == reset_reporters(k)

\* Controller.reset: the reporters, then the controls' latches.
Controller_reset(k) == reset_controls(reset_reporters(k))

\* compute_control_efforts: every control is updated first, then every
\* effort is computed, all from the same measurement.  pid_outs[i] is what
\* the delegate of control i returns if it is stepped.
compute_control_efforts(k, process_variable, pid_outs) ==
    LET cs == [i \in 1..Len(k.controls) |->
                  Control_update(k.controls[i], process_variable)]
    IN  [controls |-> cs,
         efforts |-> [i \in 1..Len(cs) |->
                         compute_control_effort(cs[i], process_variable,
                                                pid_outs[i])]]

\* Controller.report from reporter i on: each non-null reporter is updated
\* in turn; an exception ends the loop.
RECURSIVE ReportFrom(_, _, _, _, _, _, _)
ReportFrom(reps, i, current_time, process_variable, setpoint, setpoint_reached, control_efforts) ==
    IF i > Len(reps)
    THEN [reporters |-> reps, calls |-> <<>>, raised |-> "no"]
    ELSE IF IsNone(reps[i])
    THEN ReportFrom(reps, i + 1, current_time, process_variable, setpoint,
                    setpoint_reached, control_efforts)
    ELSE LET u == Reporter_update(Val(reps[i]), current_time,
                                  process_variable, setpoint,
                                  setpoint_reached, control_efforts)
             reps1 == [reps EXCEPT ![i] = Some(u.w)]
             call == [reporter |-> i,
                      process_variable |-> process_variable,
                      setpoint |-> setpoint,
                      setpoint_reached |-> setpoint_reached,
                      control_efforts |-> control_efforts]
         IN  IF u.raised # "no"
             THEN [reporters |-> reps1, calls |-> <<call>>,
                   raised |-> u.raised]
             ELSE LET rest == ReportFrom(reps1, i + 1, current_time,
                                         process_variable, setpoint,
                                         setpoint_reached, control_efforts)
                  IN  [rest EXCEPT !.calls = <<call>> \o @]

\* The calls a tick makes, in the order Controller.update makes them:
\* update() on every control, compute_control_effort() on every control,
\* set_state() on the outputs zip() pairs with an effort, then update() on
\* the reporters reached.
TickEvents(process_variable, efforts, set_state_calls, reporter_calls) ==
    [i \in 1..Len(efforts) |->
        [kind |-> "Control.update", index |-> i,
         measurement |-> process_variable]]
    \o [i \in 1..Len(efforts) |->
        [kind |-> "compute_control_effort", index |-> i,
         measurement |-> process_variable, effort |-> efforts[i]]]
    \o [j \in 1..Len(set_state_calls) |->
        [kind |-> "set_state", index |-> set_state_calls[j].output,
         state |-> set_state_calls[j].state]]
    \o [j \in 1..Len(reporter_calls) |->
        [kind |-> "Reporter.update", index |-> reporter_calls[j].reporter]]

\* Mutant: the tick goes on without a measurement: the controls are
\* updated and the outputs written.
Controller_update_NoFaultCheck(k, process_variable, pid_outs, current_time) ==
    LET e == compute_control_efforts(k, process_variable, pid_outs)
        n == Min2(Len(k.outputs), Len(e.efforts))
    IN  [k |-> [k EXCEPT !.controls = e.controls,
                         !.outputs = [j \in 1..Len(k.outputs) |->
                             IF j <= n
                             THEN [commanded |-> TRUE, state |-> e.efforts[j]]
                             ELSE k.outputs[j]]],
         ret |-> <<process_variable, e.efforts>>,
         set_state_calls |-> [j \in 1..n |->
                                 [output |-> j, state |-> e.efforts[j]]],
         reporter_calls |-> <<>>,
         events |-> <<>>,
         raised |-> "no"]

\* Mutant: the reporters are given the latch as it was before the tick.
Controller_update_StaleLatch(k, process_variable, pid_outs, current_time) ==
    IF IsNone(process_variable)
    THEN [k |-> k, ret |-> <<None, <<None>>>>, set_state_calls |-> <<>>,
          reporter_calls |-> <<>>, events |-> <<>>, raised |-> "no"]
    ELSE LET e == compute_control_efforts(k, process_variable, pid_outs)
             n == Min2(Len(k.outputs), Len(e.efforts))
             outs == [j \in 1..Len(k.outputs) |->
                         IF j <= n
                         THEN [commanded |-> TRUE, state |-> e.efforts[j]]
                         ELSE k.outputs[j]]
             rep == ReportFrom(k.reporters, 1, current_time, process_variable,
                               e.controls[1].setpoint,
                               k.controls[1].setpoint_reached, e.efforts)
             sets == [j \in 1..n |-> [output |-> j, state |-> e.efforts[j]]]
         IN  [k |-> [k EXCEPT !.controls = e.controls,
                              !.outputs = outs,
                              !.reporters = rep.reporters],
              ret |-> <<process_variable, e.efforts>>,
              set_state_calls |-> sets,
              reporter_calls |-> rep.calls,
              events |-> TickEvents(process_variable, e.efforts, sets,
                                    rep.calls),
              raised |-> rep.raised]

\* Controller.update with ProcessVariable.read() = process_variable and
\* time.time() = current_time.  Returns the controller, the value returned,
\* the set_state and Reporter.update calls made, and the exception raised.
Controller_update(k, process_variable, pid_outs, current_time) ==
    IF IsNone(process_variable)
    THEN [k |-> k, ret |-> <<None, <<None>>>>, set_state_calls |-> <<>>,
          reporter_calls |-> <<>>, events |-> <<>>, raised |-> "no"]
    ELSE LET e == compute_control_efforts(k, process_variable, pid_outs)
             n == Min2(Len(k.outputs), Len(e.efforts))
             outs == [j \in 1..Len(k.outputs) |->
                         IF j <= n
                         THEN [commanded |-> TRUE, state |-> e.efforts[j]]
                         ELSE k.outputs[j]]
             rep == ReportFrom(k.reporters, 1, current_time, process_variable,
                               e.controls[1].setpoint,
                               e.controls[1].setpoint_reached, e.efforts)
             sets == [j \in 1..n |-> [output |-> j, state |-> e.efforts[j]]]
         IN  [k |-> [k EXCEPT !.controls = e.controls,
                              !.outputs = outs,
                              !.reporters = rep.reporters],
              ret |-> IF rep.raised = "no"
                      THEN <<process_variable, e.efforts>> ELSE <<>>,
              set_state_calls |-> sets,
              reporter_calls |-> rep.calls,
              events |-> TickEvents(process_variable, e.efforts, sets,
                                    rep.calls),
              raised |-> rep.raised]

\* -------------------------------------------------------- SpecController

CtlMaxTemp == 1       \* its measurements and setpoints range over 0..CtlMaxTemp

\* The defaults of Control.__init__.
DefaultMinOutput == 0
DefaultMaxOutput == 1

CtlTemps == {None} \cup {Some(t) : t \in 0..CtlMaxTemp}

\* The controls a plain controller is built from: one of each variant,
\* without a setpoint, with the default limits and an epsilon of 1.
CtlControls ==
    {InfiniteGainControl_init(None, DefaultMinOutput, DefaultMaxOutput, 1, TRUE),
     ProportionalControl_init(1, None, DefaultMinOutput, DefaultMaxOutput, 1, FALSE),
     PIDControl_init(None, DefaultMinOutput, DefaultMaxOutput, 1, TRUE)}

\* The control of a second output (a fan): bang-bang, cooling.
FanControl ==
    InfiniteGainControl_init(None, DefaultMinOutput, DefaultMaxOutput, 1, FALSE)

\* A freshly constructed file reporter (disabled until enable() or reset()).
FileReporter == Some(World(Reporter_init(1, DefaultEfforts), <<>>))

\* The controllers a run starts from: a plain Controller over one control
\* of any variant with one or two outputs and no reporter; a plain
\* Controller over two controls and two outputs, a HeaterController, and a
\* HeaterFanController with a fan offset of 0 or -1, each with a reporter.

NewControllers ==
    {Controller_init("Controller", <<c>>, [j \in 1..m |-> NewOutput], <<None>>) :
        <<c, m>> \in CtlControls \X (1..2)}
    \cup {Controller_init("Controller",
                          <<PIDControl_init(None, DefaultMinOutput,
                                            DefaultMaxOutput, 1, TRUE),
                            FanControl>>,
                          <<NewOutput, NewOutput>>, <<FileReporter>>)}
    \cup {HeaterController_init(
              ProportionalControl_init(1, None, DefaultMinOutput,
                                       DefaultMaxOutput, 1, TRUE),
              NewOutput, FileReporter)}
    \cup {HeaterFanController_init(
              InfiniteGainControl_init(None, DefaultMinOutput,
                                       DefaultMaxOutput, 1, TRUE),
              NewOutput, FanControl, NewOutput, 0 - off, FileReporter) :
            off \in 0..1}

InitController ==
    /\ controller \in NewControllers
    /\ last = [op |-> "__init__"]
    /\ now = 0
    /\ control = Idle
    /\ reporter = Idle
    /\ handles = <<>>
    /\ thermistor = Idle

\* A run is one instant of the clock: a reporter's first record is due when
\* it is armed and no later record falls due (the schedule of later
\* records is SpecReporter's subject).
OthersUnchangedK == UNCHANGED <<control, reporter, handles, now, thermistor>>

\* A file object the reporter has closed and let go of is garbage: the
\* controller's state keeps, per reporter, only the file it holds (what was
\* written to closed files is followed in SpecReporter).
Forget(w) ==
    IF IsNone(w.r.file)
    THEN [w EXCEPT !.hs = <<>>]
    ELSE [r |-> [w.r EXCEPT !.file = Some(1)],
          hs |-> <<w.hs[Val(w.r.file)]>>]

ForgetClosedFiles(k) ==
    [k EXCEPT !.reporters =
        [i \in 1..Len(@) |->
            IF IsNone(@[i]) THEN None ELSE Some(Forget(Val(@[i])))]]

KUpdate ==
    \E pv \in CtlTemps :
        \E pid_outs \in [1..Len(controller.controls) ->
                             DefaultMinOutput..DefaultMaxOutput] :
            LET u == Controller_update(controller, pv, pid_outs, now)
            IN  /\ \A i \in 1..Len(controller.controls) :
                       pid_outs[i] \in DelegateOutputs(controller.controls[i])
                /\ controller' = ForgetClosedFiles(u.k)
                /\ last' = [op |-> "update",
                            process_variable |-> pv, ret |-> u.ret,
                            set_state_calls |-> u.set_state_calls,
                            reporter_calls |-> u.reporter_calls,
                            events |-> u.events,
                            raised |-> u.raised]
                /\ OthersUnchangedK

KSetSetpoint ==
    \E v \in CtlTemps :
        LET r == Any_set_setpoint(controller, v)
        IN  /\ controller' = r.k
            /\ last' = [op |-> "set_setpoint", arg |-> v, calls |-> r.calls]
            /\ OthersUnchangedK

KReset ==
    /\ controller' = ForgetClosedFiles(Controller_reset(controller))
    /\ last' = [op |-> "reset",
                files_closed |->
                    Cardinality({i \in 1..Len(controller.reporters) :
                        IF IsNone(controller.reporters[i]) THEN FALSE
                        ELSE ~IsNone(Val(controller.reporters[i]).r.file)}),
                latches_cleared |->
                    Cardinality({i \in 1..Len(controller.controls) :
                        controller.controls[i].setpoint_reached = "True"}),
                reenabled |->
                    Cardinality({i \in 1..Len(controller.reporters) :
                        IF IsNone(controller.reporters[i]) THEN FALSE
                        ELSE ~Val(controller.reporters[i]).r.enabled})]
    /\ OthersUnchangedK

KEnableReporters ==
    /\ controller' = enable_reporters(controller)
    /\ last' = [op |-> "enable_reporters"]
    /\ OthersUnchangedK

KDisableReporters ==
    /\ controller' = disable_reporters(controller)
    /\ last' = [op |-> "disable_reporters"]
    /\ OthersUnchangedK

\* The client installs an after_setpoint_change hook on every control.
KInstallCallbacks ==
    /\ \E i \in 1..Len(controller.controls) :
           controller.controls[i].after_setpoint_change = "None"
    /\ controller' =
           [controller EXCEPT !.controls =
               [i \in 1..Len(@) |->
                   [@[i] EXCEPT !.after_setpoint_change = "callable"]]]
    /\ last' = [op |-> "install_callbacks"]
    /\ OthersUnchangedK

NextController ==
    \/ KInstallCallbacks
    \/ KUpdate
    \/ KSetSetpoint
    \/ KReset
    \/ KEnableReporters
    \/ KDisableReporters

SpecController == InitController /\ [][NextController]_vars

\* ---------------------------------------------- claims on the Controller

\* The step is a Controller.update() whose sensor read gave None.
SensorFaultTick ==
    /\ last'.op = "update"
    /\ IsNone(last'.process_variable)

\* C1: a tick whose ProcessVariable.read() is absent returns (None, (None,)),
\* calls set_state on no Output and update on no Reporter, and leaves every
\* Control (its latch included), every Output's last commanded value and
\* every Reporter as they were.
C1_SensorFaultHoldsEverything ==
    [][SensorFaultTick =>
          /\ last'.ret = <<None, <<None>>>>
          /\ last'.set_state_calls = <<>>
          /\ last'.reporter_calls = <<>>
          /\ last'.raised = "no"
          /\ controller'.controls = controller.controls
          /\ controller'.outputs = controller.outputs
          /\ controller'.reporters = controller.reporters]_vars

\* C1 witness: a sensor fault strikes a controller that has an output
\* driven at full effort, an unset latch a tick would have touched or a
\* setpoint in force, and an enabled reporter.
C1_Witness ==
    /\ last.op = "update"
    /\ IsNone(last.process_variable)
    /\ last.ret = <<None, <<None>>>>
    /\ \E j \in 1..Len(controller.outputs) :
           controller.outputs[j] =
               [commanded |-> TRUE, state |-> Some(DefaultMaxOutput)]
    /\ \E i \in 1..Len(controller.controls) :
           /\ IsNone(controller.controls[i].setpoint)
           /\ controller.controls[i].setpoint_reached = "False"
    /\ \E i \in 1..Len(controller.reporters) :
           /\ ~IsNone(controller.reporters[i])
           /\ Val(controller.reporters[i]).r.enabled

\* ------------------------------------------------- claims on the Control

IsIdle(c) == IsNone(c.setpoint) \/ ~c.enabled
InBounds(c, e) == c.min_output <= e /\ e <= c.max_output

\* The calls after which the latch must survive: every call but
\* reset_setpoint_reached and a set_setpoint that changes the setpoint.
KeepsLatch ==
    \/ last.op \in {"update", "enable", "disable", "compute_control_effort",
                    "install_callback"}
    \/ last.op = "set_setpoint" /\ last.arg = last.pre.setpoint

\* C2: once setpoint_reached is true it stays true across update() with any
\* measurement (present or absent), enable(), disable() and a set_setpoint()
\* to the current value.
C2_SetpointReachedMonotone ==
    (KeepsLatch /\ last.pre.setpoint_reached = "True")
        => control.setpoint_reached = "True"

\* C2 witness: an update outside epsilon after the latch was set.
C2_Witness ==
    /\ last.op = "update"
    /\ last.pre.setpoint_reached = "True"
    /\ ~IsNone(last.arg)
    /\ Abs(Val(last.pre.setpoint) - Val(last.arg))
           >= last.pre.setpoint_reached_epsilon
    /\ control.setpoint_reached = "True"

\* C3 as stated: in every state, every non-absent effort lies within
\* [min_output, max_output], and InfiniteGainControl with a setpoint returns
\* exactly min_output or max_output.
C3_EffortBoundsEveryState ==
    (last.op = "compute_control_effort" /\ ~IsNone(last.ret)) =>
        /\ InBounds(last.pre, Val(last.ret))
        /\ (last.pre.kind = "InfiniteGainControl" /\ ~IsNone(last.pre.setpoint))
               => Val(last.ret) \in {last.pre.min_output, last.pre.max_output}

\* C3 amended: an enabled control with a setpoint returns a non-absent effort
\* within [min_output, max_output] (InfiniteGainControl: exactly one of the
\* two); an idle control's non-absent effort is the literal 0, whatever the
\* limits are.
C3_EffortBoundsWhenActive ==
    (last.op = "compute_control_effort" /\ ~IsNone(last.ret)) =>
        IF IsIdle(last.pre)
        THEN Val(last.ret) = 0
        ELSE /\ InBounds(last.pre, Val(last.ret))
             /\ last.pre.kind = "InfiniteGainControl"
                    => Val(last.ret) \in {last.pre.min_output,
                                          last.pre.max_output}

\* C3 witness: a proportional effort that the clamp cut down to max_output.
C3_Witness ==
    /\ last.op = "compute_control_effort"
    /\ last.pre.kind = "ProportionalControl"
    /\ ~IsIdle(last.pre)
    /\ ~IsNone(last.arg)
    /\ last.pre.gain * Abs(Val(last.pre.setpoint) - Val(last.arg))
           > last.pre.max_output
    /\ last.ret = Some(last.pre.max_output)

\* C4 as stated: a disabled control, or one without a setpoint, returns 0
\* for every measurement, the absent one included, in every variant.
C4_IdleYieldsZero ==
    (last.op = "compute_control_effort" /\ IsIdle(last.pre))
        => last.ret = Some(0)

\* C5 as stated: an absent measurement yields an absent effort in every
\* variant and every state.
C5_AbsentYieldsAbsentEveryState ==
    (last.op = "compute_control_effort" /\ IsNone(last.arg))
        => IsNone(last.ret)

\* C5 amended: an absent measurement yields an absent effort from every
\* variant whose control is enabled and has a setpoint; an idle
\* InfiniteGainControl or ProportionalControl returns 0 instead.
C5_AbsentYieldsAbsentWhenActive ==
    (last.op = "compute_control_effort" /\ IsNone(last.arg)) =>
        /\ ~IsIdle(last.pre) => IsNone(last.ret)
        /\ (IsIdle(last.pre) /\ last.pre.kind # "PIDControl")
               => last.ret = Some(0)

\* C5 witness: an active bang-bang control asked for an effort without a
\* measurement.
C5_Witness ==
    /\ last.op = "compute_control_effort"
    /\ last.pre.kind = "InfiniteGainControl"
    /\ ~IsIdle(last.pre)
    /\ IsNone(last.arg)
    /\ IsNone(last.ret)

\* C6: set_setpoint(v) with v equal to the current setpoint changes neither
\* the setpoint, the latch nor the enabled flag and calls no callback.
C6_EqualSetpointIsNoOp ==
    (last.op = "set_setpoint" /\ last.arg = last.pre.setpoint) =>
        /\ control.setpoint = last.pre.setpoint
        /\ control.setpoint_reached = last.pre.setpoint_reached
        /\ control.enabled = last.pre.enabled
        /\ last.calls = <<>>

\* C6 witness: the current setpoint re-applied to a control whose latch is
\* set and whose callback is installed.
C6_Witness ==
    /\ last.op = "set_setpoint"
    /\ last.arg = last.pre.setpoint
    /\ last.pre.setpoint_reached = "True"
    /\ last.pre.after_setpoint_change = "callable"
    /\ control.setpoint_reached = "True"

\* What a set_setpoint(v) with a new v must do to the callback.
CallbackOnce ==
    last.calls = IF last.pre.after_setpoint_change = "callable"
                 THEN <<last.arg>> ELSE <<>>

Within(c, m) ==
    /\ ~IsNone(m)
    /\ Abs(Val(c.setpoint) - Val(m)) < c.setpoint_reached_epsilon

RecordsOf(h) == SelectSeq(h.lines, LAMBDA l : l.kind = "record")

RECURSIVE NumRecords(_)
NumRecords(hs) ==
    IF hs = <<>> THEN 0
    ELSE Len(RecordsOf(Head(hs))) + NumRecords(Tail(hs))

\* The index update() works from: 0 when the call arms the reporter.
Armed(index) == IF IsNone(index) THEN 0 ELSE Val(index)

\* The records the latest call wrote to the reporter's files.
Emitted == NumRecords(handles) - NumRecords(last.pre.hs)

\* C9: update() writes at most one record per call however late the call
\* is, and next_report_index (0 when the call arms it) advances by exactly
\* one when a record is written and is unchanged otherwise.
C9_AtMostOneRecordPerCall ==
    last.op = "update" =>
        /\ Emitted \in {0, 1}
        /\ Emitted = 1 =>
               reporter.next_report_index =
                   Some(Armed(last.pre.r.next_report_index) + 1)
        /\ Emitted = 0 =>
               reporter.next_report_index = last.pre.r.next_report_index

\* C9 witness: a call that arrives at least two intervals late writes one
\* record.
C9_Witness ==
    /\ last.op = "update"
    /\ ~IsNone(last.pre.r.next_report_index)
    /\ last.time >= next_report_time(last.pre.r) + 2 * reporter.interval
    /\ Emitted = 1

\* C10 as stated: two consecutive records of a file are at least interval
\* apart.
C10_MinimumSpacing ==
    \A i \in 1..Len(handles) :
        LET recs == RecordsOf(handles[i])
        IN  \A k \in 1..(Len(recs) - 1) :
                recs[k + 1].elapsed - recs[k].elapsed >= reporter.interval

\* C10 amended: the k-th record of a file (k = 0, 1, ...) is written no
\* earlier than start_time + k * interval, the first one at start_time, and
\* record times never decrease; two consecutive records may be closer than
\* interval after a late call.
C10_RecordsOnSchedule ==
    \A i \in 1..Len(handles) :
        LET recs == RecordsOf(handles[i])
        IN  /\ Len(recs) > 0 => recs[1].elapsed = 0
            /\ \A k \in 1..Len(recs) :
                   recs[k].elapsed >= (k - 1) * reporter.interval
            /\ \A k \in 1..(Len(recs) - 1) :
                   recs[k + 1].elapsed >= recs[k].elapsed

\* C10 witness: after a late record, the next one follows within less than
\* interval.
C10_Witness ==
    \E i \in 1..Len(handles) :
        LET recs == RecordsOf(handles[i])
        IN  \E k \in 2..(Len(recs) - 1) :
                /\ recs[k].elapsed - recs[k - 1].elapsed > reporter.interval
                /\ recs[k + 1].elapsed - recs[k].elapsed < reporter.interval

\* C11: every file the reporter has opened starts with one header line,
\* followed by the record at elapsed time 0 and by records only; the update()
\* that opens a file leaves exactly that header and that record in it.
C11_HeaderOncePerFile ==
    /\ \A i \in 1..Len(handles) :
           LET lines == handles[i].lines
           IN  /\ Len(lines) >= 2
               /\ lines[1].kind = "header"
               /\ lines[2].kind = "record"
               /\ lines[2].elapsed = 0
               /\ \A k \in 2..Len(lines) : lines[k].kind = "record"
    /\ (last.op = "update" /\ Len(handles) > Len(last.pre.hs)) =>
           /\ Len(handles) = Len(last.pre.hs) + 1
           /\ Len(handles[Len(handles)].lines) = 2
    /\ last.op # "update" => Len(handles) = Len(last.pre.hs)

\* C11 witness: a second file has just been opened by update() after a
\* reset, and the first file holds its header and more than one record.
C11_Witness ==
    /\ last.op = "update"
    /\ Len(handles) = 2
    /\ Len(last.pre.hs) = 1
    /\ Len(handles[1].lines) >= 3
    /\ handles[1].lines[1].kind = "header"
    /\ handles[2].lines[1].kind = "header"
    /\ handles[2].lines[2].kind = "record"

\* The latest call was an update() on a disabled reporter or without a
\* measurement.
RefusedUpdate ==
    /\ last.op = "update"
    /\ (~last.pre.r.enabled \/ IsNone(last.arg))

\* C12: update() on a disabled reporter (a freshly constructed one
\* included) or with an absent process variable changes nothing: start_time,
\* next_report_index, file and enabled are as before, no file is opened and
\* no line is written to a file or to stdout.
C12_RefusedUpdateIsNoOp ==
    RefusedUpdate =>
        /\ reporter = last.pre.r
        /\ handles = last.pre.hs
        /\ last.stdout = <<>>
        /\ last.raised = "no"

\* C12 witness: a disabled reporter that holds an open file is given a
\* measurement at a time when its next record is due, and writes nothing.
C12_Witness ==
    /\ last.op = "update"
    /\ ~last.pre.r.enabled
    /\ ~IsNone(last.arg)
    /\ ~IsNone(last.pre.r.file)
    /\ last.time >= next_report_time(last.pre.r)
    /\ handles = last.pre.hs

\* C13 as stated: while a file is open next_report_index is defined and
\* does not decrease, and after reset() or close_report() both the file and
\* next_report_index are absent.
C13_ClosingClearsBoth ==
    /\ ~IsNone(reporter.file) => ~IsNone(reporter.next_report_index)
    /\ (/\ last.op \in {"update", "enable", "disable"}
        /\ ~IsNone(last.pre.r.file)
        /\ reporter.file = last.pre.r.file) =>
           Val(reporter.next_report_index) >= Val(last.pre.r.next_report_index)
    /\ last.op \in {"reset", "close_report"} =>
           /\ IsNone(reporter.file)
           /\ IsNone(reporter.next_report_index)

\* C14: after reset() or close_report() the file that was open before the
\* call is closed, was closed once, and the reporter holds no file; no file
\* is ever closed twice or written after it was closed; and the first
\* accepted update() after a reset() opens a new file and writes to it.
C14_LogFileReleased ==
    /\ last.op \in {"reset", "close_report"} =>
           /\ IsNone(reporter.file)
           /\ ~IsNone(last.pre.r.file) =>
                  /\ handles[Val(last.pre.r.file)].closed
                  /\ handles[Val(last.pre.r.file)].closes = 1
    /\ \A i \in 1..Len(handles) :
           /\ handles[i].closes <= 1
           /\ handles[i].closed <=> reporter.file # Some(i)
    /\ last.op = "update" =>
           \A i \in 1..Len(last.pre.hs) :
               last.pre.hs[i].closed => handles[i] = last.pre.hs[i]
    /\ (/\ last.op = "update"
        /\ last.pre.r.enabled
        /\ ~IsNone(last.arg)
        /\ IsNone(last.pre.r.next_report_index)) =>
           /\ Len(handles) = Len(last.pre.hs) + 1
           /\ reporter.file = Some(Len(handles))
           /\ ~handles[Len(handles)].closed

\* C14 witness: reset() has closed a file that held records, and the next
\* accepted update() has opened a second file, leaving the first untouched.
C14_Witness ==
    /\ last.op = "update"
    /\ Len(last.pre.hs) = 1
    /\ last.pre.hs[1].closed
    /\ last.pre.hs[1].closes = 1
    /\ IsNone(last.pre.r.file)
    /\ IsNone(last.pre.r.next_report_index)
    /\ reporter.file = Some(2)
    /\ handles[1] = last.pre.hs[1]

\* ------------------------------------- further claims on the Controller

\* The step is a set_setpoint() on a HeaterFanController.
FanSetSetpoint ==
    /\ last'.op = "set_setpoint"
    /\ controller.cls = "HeaterFanController"

\* C15 as stated: HeaterFanController.set_setpoint(v) with v present gives
\* the heater control v and the fan control v + fan_setpoint_offset; with v
\* absent the heater control's setpoint becomes absent and the fan
\* control's setpoint stays what it was.
C15_AbsentSetpointKeepsFan ==
    [][FanSetSetpoint =>
          IF ~IsNone(last'.arg)
          THEN /\ controller'.controls[1].setpoint = last'.arg
               /\ controller'.controls[2].setpoint =
                      Some(Val(last'.arg) + controller.fan_setpoint_offset)
          ELSE /\ IsNone(controller'.controls[1].setpoint)
               /\ controller'.controls[2].setpoint =
                      controller.controls[2].setpoint]_vars

\* C16 as stated: a controller whose controls and outputs differ in number
\* fails at its first update(), so an update() that writes outputs has as
\* many controls as outputs and writes every effort it computed.
C16_MismatchFailsFast ==
    /\ (last.op = "update" /\ ~IsNone(last.process_variable)
        /\ Len(controller.controls) # Len(controller.outputs)) =>
           last.raised # "no"
    /\ (last.op = "update" /\ last.set_state_calls # <<>>) =>
           /\ Len(controller.controls) = Len(controller.outputs)
           /\ Len(last.set_state_calls) = Len(controller.controls)

\* C17: after Controller.reset() every non-null reporter holds no file and
\* has neither start_time nor next_report_index, no control's latch is
\* true, and every control's setpoint and enabled flag are as before.
C17_ResetClearsSessionsAndLatches ==
    [][last'.op = "reset" =>
          /\ \A i \in 1..Len(controller'.reporters) :
                 IF IsNone(controller'.reporters[i]) THEN TRUE
                 ELSE LET r == Val(controller'.reporters[i]).r
                      IN  /\ IsNone(r.file)
                          /\ IsNone(r.start_time)
                          /\ IsNone(r.next_report_index)
          /\ Len(controller'.controls) = Len(controller.controls)
          /\ \A i \in 1..Len(controller.controls) :
                 /\ controller'.controls[i].setpoint_reached # "True"
                 /\ controller'.controls[i].setpoint =
                        controller.controls[i].setpoint
                 /\ controller'.controls[i].enabled =
                        controller.controls[i].enabled]_vars

\* C17 witness: a reset() of a controller whose reporter held an open file
\* and whose control had reached its setpoint; the setpoint is still there.
C17_Witness ==
    /\ last.op = "reset"
    /\ last.files_closed >= 1
    /\ last.latches_cleared >= 1
    /\ \E i \in 1..Len(controller.controls) :
           /\ ~IsNone(controller.controls[i].setpoint)
           /\ controller.controls[i].setpoint_reached = "False"
    /\ \E i \in 1..Len(controller.reporters) :
           IF IsNone(controller.reporters[i]) THEN FALSE
           ELSE /\ IsNone(Val(controller.reporters[i]).r.file)
                /\ Val(controller.reporters[i]).r.enabled

\* ------------------------------------------------------------ Thermistor

\* The defaults of Thermistor.__init__: the bias resistor in ohms and the
\* Steinhart-Hart coefficients in units of 1e-8 per kelvin.
Thermistor_bias_resistance == 1962
Thermistor_A == 112531
Thermistor_B == 23471
Thermistor_C == 9

\* 273.15 K in hundredths of a kelvin.
CelsiusOffset == 27315

\* Thermistor.__init__: nothing has been read yet.
Thermistor_init(bias_resistance) ==
    [reading |-> None,
     referenced_reading |-> None,
     bias_resistance |-> bias_resistance]

\* read_voltage with the two pins' read_raw() values: stores and returns
\* the sensed reading and reference - sensed.
read_voltage(t, ref, raw) ==
    [t EXCEPT !.reading = Some(raw), !.referenced_reading = Some(ref - raw)]

\* read_resistance after read_voltage: absent when the referenced reading
\* is not positive, else the divider's resistance in whole ohms.
read_resistance(t) ==
    IF Val(t.referenced_reading) <= 0
    THEN None
    ELSE Some((Val(t.reading) * t.bias_resistance)
                  \div Val(t.referenced_reading))

\* The whole part of the base-2 logarithm of n >= 1.
RECURSIVE Log2(_)
Log2(n) == IF n <= 1 THEN 0 ELSE 1 + Log2(n \div 2)

\* np.log(R) for R >= 1, from the base-2 logarithm (ln 2 = 0.693).
Ln(R) == (Log2(R) * 693) \div 1000

\* The Steinhart-Hart temperature in hundredths of a kelvin.  np.log(0) is
\* -inf, whose reciprocal is -0.0.
T_Kelvin(R) ==
    IF R = 0 THEN 0
    ELSE (1000000000 \div (Thermistor_A + Thermistor_B * Ln(R)
                           + Thermistor_C * Ln(R) * Ln(R) * Ln(R))) * 10

\* Thermistor.read(unit) after read_voltage: the value returned (None or a
\* temperature) and the exception raised ("no" for a normal return).
Thermistor_read(t, unit) ==
    LET R == read_resistance(t)
    IN  IF IsNone(R) THEN [ret |-> None, raised |-> "no"]
        ELSE IF unit = "K"
        THEN [ret |-> Some(T_Kelvin(Val(R))), raised |-> "no"]
        ELSE IF unit = "C"
        THEN [ret |-> Some(T_Kelvin(Val(R)) - CelsiusOffset), raised |-> "no"]
        ELSE [ret |-> None, raised |-> "ValueError"]

\* -------------------------------------------------------- SpecThermistor

MaxRaw == 4           \* the pins' raw readings range over 0..MaxRaw

Units == {"K", "C", "F"}

InitThermistor ==
    /\ thermistor = Thermistor_init(Thermistor_bias_resistance)
    /\ last = [op |-> "__init__"]
    /\ control = Idle
    /\ reporter = Idle
    /\ handles = <<>>
    /\ now = 0
    /\ controller = Idle

OthersUnchangedT == UNCHANGED <<control, reporter, handles, now, controller>>

TReadVoltage ==
    \E ref \in 0..MaxRaw, raw \in 0..MaxRaw :
        /\ thermistor' = read_voltage(thermistor, ref, raw)
        /\ last' = [op |-> "read_voltage",
                    ret |-> <<raw, ref - raw>>, raised |-> "no"]
        /\ OthersUnchangedT

TReadResistance ==
    \E ref \in 0..MaxRaw, raw \in 0..MaxRaw :
        LET t == read_voltage(thermistor, ref, raw)
        IN  /\ thermistor' = t
            /\ last' = [op |-> "read_resistance",
                        ret |-> read_resistance(t), raised |-> "no"]
            /\ OthersUnchangedT

TRead ==
    \E ref \in 0..MaxRaw, raw \in 0..MaxRaw, unit \in Units :
        LET t == read_voltage(thermistor, ref, raw)
            r == Thermistor_read(t, unit)
        IN  /\ thermistor' = t
            /\ last' = [op |-> "read", unit |-> unit,
                        ret |-> r.ret, raised |-> r.raised]
            /\ OthersUnchangedT

NextThermistor ==
    \/ TReadVoltage
    \/ TReadResistance
    \/ TRead

SpecThermistor == InitThermistor /\ [][NextThermistor]_vars

\* ------------------------------------------------ claims on the Thermistor

\* C18 as stated: read(unit) with a unit other than kelvin or Celsius
\* raises whatever the two raw readings are, also when the referenced
\* reading is not positive, and returns neither absent nor a number.
C18_UnknownUnitAlwaysRaises ==
    (last.op = "read" /\ last.unit \notin {"K", "C"}) =>
        last.raised = "ValueError"

\* ---------------------------------------------------------- SpecPeriodic

MaxPeriodInterval == 5   \* the interval ranges over 1..MaxPeriodInterval
MaxPeriodTime == 13      \* the clock runs over 0..MaxPeriodTime

\* The periods d of the calls: the divisors of the interval.
Divisors(n) == {d \in 1..n : n % d = 0}

\* An enabled, freshly reset reporter; update() is then called every
\* last.period clock units with a present measurement, first at time now.
InitPeriodic ==
    /\ \E i \in 1..MaxPeriodInterval :
           /\ reporter = Reporter_reset(World(Reporter_init(i, DefaultEfforts),
                                              <<>>)).r
           /\ \E d \in Divisors(i) :
                  last = [op |-> "reset", period |-> d, called |-> FALSE]
    /\ handles = <<>>
    /\ now \in 0..1
    /\ control = Idle
    /\ controller = Idle
    /\ thermistor = Idle

\* The call due at the current time.
PUpdate ==
    /\ ~last.called
    /\ \E pv \in {Some(t) : t \in 0..1} :
           LET u == Reporter_update(World(reporter, handles), now, pv,
                                    Some(MaxTemp), "False", <<Some(0)>>)
           IN  /\ reporter' = u.w.r
               /\ handles' = u.w.hs
               /\ last' = [op |-> "update", period |-> last.period,
                           called |-> TRUE]
    /\ UNCHANGED now
    /\ OthersUnchangedR

\* One period passes.
PTick ==
    /\ last.called
    /\ now + last.period <= MaxPeriodTime
    /\ now' = now + last.period
    /\ last' = [last EXCEPT !.called = FALSE]
    /\ UNCHANGED <<reporter, handles>>
    /\ OthersUnchangedR

NextPeriodic ==
    \/ PUpdate
    \/ PTick

SpecPeriodic == InitPeriodic /\ [][NextPeriodic]_vars

\* ------------------------------------------- claims on periodic reporting

\* The time since the reporter's first call.
Elapsed == now - Val(reporter.start_time)

\* C19: with calls every d clock units, d a divisor of the interval I, the
\* reporter writes one file whose k-th record (k = 0, 1, ...) is at elapsed
\* time k * I exactly, and once the call at elapsed time e has been made
\* the file holds e \div I + 1 records.
C19_PeriodicRecords ==
    /\ Len(handles) <= 1
    /\ Len(handles) = 0 <=> last.op = "reset"
    /\ \A i \in 1..Len(handles) :
           LET recs == RecordsOf(handles[i])
           IN  /\ \A k \in 1..Len(recs) :
                      recs[k].elapsed = (k - 1) * reporter.interval
               /\ last.called =>
                      Len(recs) = (Elapsed \div reporter.interval) + 1
               /\ ~last.called =>
                      Len(recs) = ((Elapsed - last.period)
                                       \div reporter.interval) + 1

\* C19 witness: interval 5, calls every 1, 12 units after the first call:
\* exactly three records, at 0, 5 and 10.
C19_Witness ==
    /\ reporter.interval = 5
    /\ last.period = 1
    /\ last.op = "update"
    /\ last.called
    /\ Elapsed = 12
    /\ Len(handles) = 1
    /\ Len(RecordsOf(handles[1])) = 3
    /\ RecordsOf(handles[1])[1].elapsed = 0
    /\ RecordsOf(handles[1])[2].elapsed = 5
    /\ RecordsOf(handles[1])[3].elapsed = 10

\* ------------------------------------- claims on the ProportionalControl

\* clamp(x, lo, hi) of the claim.
Clamp(x, lo, hi) == IF x < lo THEN lo ELSE IF x > hi THEN hi ELSE x

\* The latest call asked an enabled ProportionalControl with a setpoint
\* for its effort at a present measurement.
ProportionalCall ==
    /\ last.op = "compute_control_effort"
    /\ last.pre.kind = "ProportionalControl"
    /\ ~IsIdle(last.pre)
    /\ ~IsNone(last.arg)

\* C20: an enabled ProportionalControl with setpoint and measurement
\* present returns clamp(g * (setpoint - measurement), min_output,
\* max_output), g being gain when the output increases the process variable
\* and -gain otherwise.
C20_ProportionalEffort ==
    ProportionalCall =>
        LET c == last.pre
            g == IF c.output_increases_pv THEN c.gain ELSE 0 - c.gain
        IN  last.ret = Some(Clamp(g * (Val(c.setpoint) - Val(last.arg)),
                                  c.min_output, c.max_output))

\* C20 witness: a cooling control (the output lowers the process variable)
\* above its setpoint returns a positive effort strictly inside its limits.
C20_Witness ==
    /\ ProportionalCall
    /\ ~last.pre.output_increases_pv
    /\ Val(last.arg) > Val(last.pre.setpoint)
    /\ last.ret = Some(last.pre.gain * (Val(last.arg) - Val(last.pre.setpoint)))
    /\ Val(last.ret) > last.pre.min_output
    /\ Val(last.ret) < last.pre.max_output

\* ------------------------------------------- claims on the Controller tick

\* The latest call was a tick with a present measurement.
MeasuredTick ==
    /\ last.op = "update"
    /\ ~IsNone(last.process_variable)

\* The positions in the latest tick's calls of the calls of one kind.
EventsOf(kind) == {a \in 1..Len(last.events) : last.events[a].kind = kind}

\* The effort the latest tick computed for control i.
EffortOf(i) ==
    LET a == CHOOSE a \in EventsOf("compute_control_effort") :
                 last.events[a].index = i
    IN  last.events[a].effort

\* C21: in a tick with a present measurement every control is updated
\* before any effort is computed, every effort is computed from that
\* measurement by the updated control, output i is written the effort of
\* control i, every output is written before any reporter is updated, and
\* every non-null reporter is given the measurement, the first control's
\* setpoint and latch as the tick left them, and all the efforts.
C21_TickProtocol ==
    MeasuredTick =>
        /\ \A a \in EventsOf("Control.update") :
               \A b \in EventsOf("compute_control_effort") : a < b
        /\ \A a \in EventsOf("compute_control_effort") :
               \A b \in EventsOf("set_state") : a < b
        /\ \A a \in EventsOf("set_state") :
               \A b \in EventsOf("Reporter.update") : a < b
        /\ \A i \in 1..Len(controller.controls) :
               /\ Cardinality({a \in EventsOf("Control.update") :
                                  last.events[a].index = i}) = 1
               /\ Cardinality({a \in EventsOf("compute_control_effort") :
                                  last.events[a].index = i}) = 1
               /\ controller.controls[i].kind # "PIDControl" =>
                      EffortOf(i) =
                          compute_control_effort(controller.controls[i],
                                                 last.process_variable, 0)
               /\ last.ret[2][i] = EffortOf(i)
        /\ \A a \in EventsOf("Control.update") \cup
                    EventsOf("compute_control_effort") :
               last.events[a].measurement = last.process_variable
        /\ \A a \in EventsOf("set_state") :
               /\ last.events[a].index <= Len(controller.controls)
               /\ last.events[a].state = EffortOf(last.events[a].index)
               /\ controller.outputs[last.events[a].index] =
                      [commanded |-> TRUE,
                       state |-> EffortOf(last.events[a].index)]
        /\ \A j \in 1..Min2(Len(controller.controls),
                            Len(controller.outputs)) :
               \E a \in EventsOf("set_state") : last.events[a].index = j
        /\ last.ret[1] = last.process_variable
        /\ \A i \in 1..Len(controller.reporters) :
               ~IsNone(controller.reporters[i]) =>
                   \E j \in 1..Len(last.reporter_calls) :
                       last.reporter_calls[j] =
                           [reporter |-> i,
                            process_variable |-> last.process_variable,
                            setpoint |-> controller.controls[1].setpoint,
                            setpoint_reached |->
                                controller.controls[1].setpoint_reached,
                            control_efforts |-> last.ret[2]]

\* C21 witness: a tick of a controller with two controls, two outputs and an
\* enabled reporter in which the first control reaches its setpoint: the
\* record written in this tick already says so.
C21_Witness ==
    /\ MeasuredTick
    /\ Len(controller.controls) = 2
    /\ Cardinality(EventsOf("set_state")) = 2
    /\ Cardinality(EventsOf("Reporter.update")) = 1
    /\ controller.controls[1].setpoint_reached = "True"
    /\ \E i \in 1..Len(controller.reporters) :
           IF IsNone(controller.reporters[i]) THEN FALSE
           ELSE LET w == Val(controller.reporters[i])
                IN  /\ w.r.enabled
                    /\ ~IsNone(w.r.file)
                    /\ Len(w.hs[Val(w.r.file)].lines) = 2
                    /\ w.hs[Val(w.r.file)].lines[2].setpoint_reached = "True"

\* ------------------------------------- claims on the InfiniteGainControl

\* The latest call asked an enabled InfiniteGainControl with a setpoint for
\* its effort at a present measurement.
InfiniteGainCall ==
    /\ last.op = "compute_control_effort"
    /\ last.pre.kind = "InfiniteGainControl"
    /\ ~IsIdle(last.pre)
    /\ ~IsNone(last.arg)

\* C22: an enabled InfiniteGainControl with setpoint and measurement present
\* returns max_output when the output increases the process variable and
\* setpoint > measurement, or the output decreases it and setpoint <
\* measurement; it returns min_output otherwise, so also at the setpoint.
C22_InfiniteGainEffort ==
    InfiniteGainCall =>
        LET c == last.pre
            sp == Val(c.setpoint)
            m == Val(last.arg)
        IN  /\ last.ret =
                   IF \/ (c.output_increases_pv /\ sp > m)
                      \/ (~c.output_increases_pv /\ sp < m)
                   THEN Some(c.max_output)
                   ELSE Some(c.min_output)
            /\ sp = m => last.ret = Some(c.min_output)

\* C22 witness: a heating control exactly at its setpoint, with distinct
\* limits, returns min_output.
C22_Witness ==
    /\ InfiniteGainCall
    /\ last.pre.output_increases_pv
    /\ last.pre.setpoint = last.arg
    /\ last.pre.min_output < last.pre.max_output
    /\ last.ret = Some(last.pre.min_output)

\* ---------------------------------------------- claims on the PIDControl

\* C23: whenever a PIDControl has a setpoint its delegate has the same one,
\* so every step of the delegate is made with the control's setpoint; the
\* delegate is stepped exactly by the calls with a present measurement on
\* an enabled control with a setpoint; and set_setpoint(absent) leaves the
\* delegate's setpoint as it was.
C23_DelegateSetpointInSync ==
    /\ (control.kind = "PIDControl" /\ ~IsNone(control.setpoint)) =>
           control.pid.setpoint = control.setpoint
    /\ last.op = "compute_control_effort" =>
           /\ last.stepped <=>
                  /\ last.pre.kind = "PIDControl"
                  /\ ~IsNone(last.arg)
                  /\ ~IsIdle(last.pre)
           /\ last.stepped => last.pre.pid.setpoint = last.pre.setpoint
    /\ (/\ last.op = "set_setpoint"
        /\ last.pre.kind = "PIDControl"
        /\ IsNone(last.arg)) =>
           control.pid.setpoint = last.pre.pid.setpoint

\* C23 witness: set_setpoint(absent) on a PIDControl with a setpoint: the
\* control has none now, the delegate still has the old one.
C23_Witness ==
    /\ last.op = "set_setpoint"
    /\ last.pre.kind = "PIDControl"
    /\ IsNone(last.arg)
    /\ ~IsNone(last.pre.setpoint)
    /\ IsNone(control.setpoint)
    /\ control.pid.setpoint = last.pre.setpoint

\* ------------------------------------ claims on the HeaterFanController

\* The step re-applies to a HeaterFanController with a non-zero fan offset
\* the present setpoint its last set_setpoint() call gave it.
ReappliesSetpoint ==
    /\ FanSetSetpoint
    /\ controller.fan_setpoint_offset # 0
    /\ ~IsNone(last'.arg)
    /\ last.op = "set_setpoint"
    /\ last.arg = last'.arg

\* The step gives a HeaterFanController a present setpoint that differs
\* from the heater's and from the fan's current one.
AppliesNewSetpoint ==
    /\ FanSetSetpoint
    /\ ~IsNone(last'.arg)
    /\ last'.arg # controller.controls[1].setpoint
    /\ last'.arg # controller.controls[2].setpoint
    /\ \A i \in 1..2 :
           controller.controls[i].after_setpoint_change = "callable"

\* C24 as stated: the second of two set_setpoint(v) calls in a row on a
\* HeaterFanController with a non-zero offset changes neither control's
\* setpoint or latch and fires no callback, and a call with a new value
\* fires each control's callback exactly once.
C24_ReapplyIsNoOp ==
    [][/\ ReappliesSetpoint =>
              /\ controller'.controls = controller.controls
              /\ last'.calls = <<<<>>, <<>>>>
       /\ AppliesNewSetpoint =>
              /\ Len(last'.calls[1]) = 1
              /\ Len(last'.calls[2]) = 1]_vars

\* ------------------------------- claims on a Controller's report files

\* The files a controller's reporters hold.
ReportFiles ==
    UNION {IF IsNone(controller.reporters[i]) THEN {}
           ELSE {Val(controller.reporters[i]).hs[j] :
                    j \in 1..Len(Val(controller.reporters[i]).hs)}
           : i \in 1..Len(controller.reporters)}

\* C25 as stated: in every file opened by a controller's reporter, also
\* after Controller.reset(), the header names one effort column per effort
\* value of each record.
C25_HeaderMatchesRecords ==
    \A h \in ReportFiles :
        /\ \A n \in 1..Len(h.lines[1].control_efforts) :
               h.lines[1].control_efforts[n] # ""
        /\ \A k \in 2..Len(h.lines) :
               Len(h.lines[k].control_efforts) =
                   Len(h.lines[1].control_efforts)

\* ------------------------------------- claims on the reporter's file handle

\* The file objects that are open.
OpenFiles(hs) == {i \in 1..Len(hs) : ~hs[i].closed}

\* C26: a reporter without next_report_index holds no file; update() opens
\* a file only when the reporter holds none and every earlier file is
\* closed, so at most one file is open, and it is the one the reporter
\* holds; after reset() or close_report() no file is open.
C26_NoHandleLeak ==
    /\ IsNone(reporter.next_report_index) => IsNone(reporter.file)
    /\ Cardinality(OpenFiles(handles)) <= 1
    /\ \A i \in OpenFiles(handles) : reporter.file = Some(i)
    /\ Len(handles) > Len(last.pre.hs) =>
           /\ last.op = "update"
           /\ IsNone(last.pre.r.file)
           /\ OpenFiles(last.pre.hs) = {}
    /\ last.op \in {"reset", "close_report"} => OpenFiles(handles) = {}

\* C26 witness: a second file was opened after the first was closed, and
\* close_report() has now closed the second one too.
C26_Witness ==
    /\ last.op = "close_report"
    /\ Len(handles) = 2
    /\ last.pre.r.file = Some(2)
    /\ OpenFiles(last.pre.hs) = {2}
    /\ OpenFiles(handles) = {}

\* ------------------------------------------ claims on Controller.reset()

\* The reporters of c that are not None.
NonNullReporters(c) ==
    {i \in 1..Len(c.reporters) : ~IsNone(c.reporters[i])}

\* C27: Controller.reset() leaves every non-null reporter enabled, and the
\* tick with a present measurement that follows it makes each of them open
\* a file holding a header and one record.
C27_ResetReenablesReporters ==
    [][/\ last'.op = "reset" =>
              \A i \in NonNullReporters(controller') :
                  Val(controller'.reporters[i]).r.enabled
       /\ (/\ last.op = "reset"
           /\ last'.op = "update"
           /\ ~IsNone(last'.process_variable)) =>
              \A i \in NonNullReporters(controller') :
                  LET w == Val(controller'.reporters[i])
                  IN  /\ ~IsNone(w.r.file)
                      /\ ~w.hs[Val(w.r.file)].closed
                      /\ Len(w.hs[Val(w.r.file)].lines) = 2
                      /\ w.hs[Val(w.r.file)].lines[1].kind = "header"
                      /\ w.hs[Val(w.r.file)].lines[2].kind = "record"]_vars

\* C27 witness: reset() of a controller whose reporter had been disabled
\* while it held a file: the reporter is enabled again and holds no file.
C27_Witness ==
    /\ last.op = "reset"
    /\ last.reenabled >= 1
    /\ last.files_closed >= 1
    /\ NonNullReporters(controller) # {}
    /\ \A i \in NonNullReporters(controller) :
           /\ Val(controller.reporters[i]).r.enabled
           /\ IsNone(Val(controller.reporters[i]).r.file)

\* -------------------------------------------------------- SpecReporterIO

\* ControllerReporter.update when open() in open_report() raises: a refused
\* call returns at once, an armed reporter opens nothing and goes on as
\* usual; the first accepted call has assigned start_time and
\* next_report_index before open_report() raises out of update().
Reporter_update_open_raises(w, current_time, process_variable, setpoint, setpoint_reached, control_efforts) ==
    IF ~w.r.enabled \/ IsNone(process_variable)
    THEN [w |-> w, stdout |-> <<>>, raised |-> "no"]
    ELSE IF IsNone(w.r.next_report_index)
    THEN [w |-> [w EXCEPT !.r.start_time = Some(current_time),
                          !.r.next_report_index = Some(0)],
          stdout |-> <<>>, raised |-> "OSError"]
    ELSE Reporter_update(w, current_time, process_variable, setpoint,
                         setpoint_reached, control_efforts)

\* The first accepted update() at a time when the log file cannot be
\* opened.
RUpdateOpenRaises ==
    /\ reporter.enabled
    /\ IsNone(reporter.next_report_index)
    /\ LET u == Reporter_update_open_raises(World(reporter, handles), now,
                                            Some(0), Some(MaxTemp), "False",
                                            <<Some(0)>>)
       IN  /\ reporter' = u.w.r
           /\ handles' = u.w.hs
           /\ last' = [op |-> "update", pre |-> World(reporter, handles),
                       arg |-> Some(0), time |-> now,
                       stdout |-> u.stdout, raised |-> u.raised]
    /\ UNCHANGED now
    /\ OthersUnchangedR

\* The reporter of SpecReporter with a file system that may refuse to open
\* a file.
NextReporterIO ==
    \/ NextReporter
    \/ RUpdateOpenRaises

SpecReporterIO == InitReporter /\ [][NextReporterIO]_vars

\* --------------------------------------------- claims on a failed open()

\* C28 as stated: when opening the log file raises in the first accepted
\* update(), the exception reaches the caller and the reporter is as it was
\* before the call: no start_time, no next_report_index, no file.
C28_FailedOpenLeavesUnarmed ==
    (last.op = "update" /\ last.raised = "OSError") =>
        /\ reporter = last.pre.r
        /\ IsNone(reporter.start_time)
        /\ IsNone(reporter.next_report_index)
        /\ IsNone(reporter.file)

\* ------------------------------------------ claims on the default epsilon

\* The default setpoint_reached_epsilon of Control.__init__.
DefaultEpsilon == 0

\* C29: a Control with the default setpoint_reached_epsilon of 0 never has
\* its latch true, whatever set_setpoint and update calls it receives: an
\* update() with the measurement equal to the setpoint leaves it false.
C29_DefaultEpsilonNeverReached ==
    control.setpoint_reached_epsilon = DefaultEpsilon =>
        /\ control.setpoint_reached # "True"
        /\ (/\ last.op = "update"
            /\ ~IsNone(last.pre.setpoint)) =>
               control.setpoint_reached = "False"

\* C29 witness: update() with the measurement exactly at the setpoint on a
\* control with epsilon 0: the latch stays false.
C29_Witness ==
    /\ control.setpoint_reached_epsilon = DefaultEpsilon
    /\ last.op = "update"
    /\ ~IsNone(last.pre.setpoint)
    /\ last.arg = last.pre.setpoint
    /\ control.setpoint_reached = "False"

====
